---- MODULE Spec2Model ----
(***************************************************************************)
(* Model of matemol's molfile loader (src/src/main.rs): Input::load and    *)
(* the lookup tables get_valence, is_heavy_atom and convert_mdl_type.      *)
(*                                                                         *)
(* Text is modelled at character level: a line or a token is a sequence of *)
(* one-character strings, so that tokenizing, trimming and number parsing  *)
(* are computed and not assumed.  The lines iterator (s.lines()) yields    *)
(* the lines of the file one at a time; the model draws each yielded line  *)
(* (or the end of the file) from a finite alphabet when the code asks for  *)
(* it, and records the lines yielded so far in `file`.                     *)
(*                                                                         *)
(* f64 values are represented as integers counting tenths (1.5 is 15):     *)
(* every numeric token of the alphabets has at most one fractional digit.  *)
(* Output-only strings (atype, btype) are TLA+ strings.                    *)
(***************************************************************************)
EXTENDS Integers, Sequences, FiniteSets, TLC

\* ------------------------------------------------------------------ bounds
\* Largest number of atom records plus bond records a counts line declares.
MaxRecords == 3

\* usize::MAX, the value 0usize - 1 wraps to when overflow checks are off.
\* The model uses the largest integer of the checker in place of 2^64 - 1;
\* all that is read of it is that it is no valid atom index.
USIZE_MAX == 2147483647

\* ------------------------------------------------------- character classes
\* Characters char::is_ascii_whitespace accepts (those the alphabets use).
AsciiWhitespace == {" ", "\t"}

DigitChars == <<"0", "1", "2", "3", "4", "5", "6", "7", "8", "9">>

IsDigit(c) == \E i \in 1..10 : DigitChars[i] = c

DigitVal(c) == (CHOOSE i \in 1..10 : DigitChars[i] = c) - 1

\* ----------------------------------------------------------- str helpers
\* str::trim: the slice without its leading and trailing whitespace.
RECURSIVE TrimStart(_)
TrimStart(s) ==
    IF s # <<>> /\ Head(s) \in AsciiWhitespace THEN TrimStart(Tail(s)) ELSE s

RECURSIVE TrimEnd(_)
TrimEnd(s) ==
    IF s # <<>> /\ s[Len(s)] \in AsciiWhitespace
    THEN TrimEnd(SubSeq(s, 1, Len(s) - 1))
    ELSE s

trim(s) == TrimEnd(TrimStart(s))

\* str::split_ascii_whitespace collected: the maximal runs of
\* non-whitespace characters, in order; empty runs are dropped.
RECURSIVE SplitFrom(_, _, _)
SplitFrom(s, cur, acc) ==
    IF s = <<>>
    THEN IF cur = <<>> THEN acc ELSE Append(acc, cur)
    ELSE IF Head(s) \in AsciiWhitespace
         THEN SplitFrom(Tail(s), <<>>, IF cur = <<>> THEN acc ELSE Append(acc, cur))
         ELSE SplitFrom(Tail(s), Append(cur, Head(s)), acc)

split_ascii_whitespace(s) == SplitFrom(s, <<>>, <<>>)

\* ------------------------------------------------------------- parsing
ParseErr == [ok |-> FALSE, val |-> 0]

ParseOk(v) == [ok |-> TRUE, val |-> v]

RECURSIVE DigitsValue(_, _)
DigitsValue(s, acc) ==
    IF s = <<>> THEN acc ELSE DigitsValue(Tail(s), 10 * acc + DigitVal(Head(s)))

AllDigits(s) == \A i \in 1..Len(s) : IsDigit(s[i])

\* str::parse::<usize>: an optional "+", then one or more decimal digits.
parse_usize(tok) ==
    LET body == IF tok # <<>> /\ Head(tok) = "+" THEN Tail(tok) ELSE tok
    IN  IF body # <<>> /\ AllDigits(body)
        THEN ParseOk(DigitsValue(body, 0))
        ELSE ParseErr

\* str::parse::<f64> on the decimal tokens of the alphabets: an optional
\* sign, digits, and optionally "." with at most one fractional digit (at
\* least one digit overall).  The value is returned in tenths.
parse_f64(tok) ==
    LET neg  == tok # <<>> /\ Head(tok) = "-"
        body == IF tok # <<>> /\ Head(tok) \in {"-", "+"} THEN Tail(tok) ELSE tok
        dots == {i \in 1..Len(body) : body[i] = "."}
        dot  == IF dots = {} THEN Len(body) + 1 ELSE CHOOSE i \in dots : TRUE
        ip   == SubSeq(body, 1, dot - 1)
        fp   == SubSeq(body, dot + 1, Len(body))
        mag  == 10 * DigitsValue(ip, 0) + DigitsValue(fp, 0)
    IN  IF /\ Cardinality(dots) <= 1
           /\ AllDigits(ip) /\ AllDigits(fp)
           /\ Len(ip) + Len(fp) >= 1
           /\ Len(fp) <= 1
        THEN ParseOk(IF neg THEN 0 - mag ELSE mag)
        ELSE ParseErr

\* ------------------------------------------------------- property tables
Unimplemented == [ok |-> FALSE, val |-> 0]

\* A variant that knows the mixed-case spellings convert_mdl_type knows.
get_valence_mixed_case(elem_str) ==
    CASE elem_str = <<"H">> -> ParseOk(1)
      [] elem_str = <<"C">> -> ParseOk(4)
      [] elem_str = <<"N">> -> ParseOk(3)
      [] elem_str = <<"O">> -> ParseOk(2)
      [] elem_str \in {<<"C", "L">>, <<"C", "l">>} -> ParseOk(1)
      [] elem_str \in {<<"F", "E">>, <<"F", "e">>} -> ParseOk(3)
      [] OTHER -> Unimplemented

\* A variant that defaults an unlisted symbol instead of failing.
get_valence_defaulting(elem_str) ==
    CASE elem_str = <<"H">> -> ParseOk(1)
      [] elem_str = <<"C">> -> ParseOk(4)
      [] elem_str = <<"N">> -> ParseOk(3)
      [] elem_str = <<"O">> -> ParseOk(2)
      [] elem_str = <<"C", "L">> -> ParseOk(1)
      [] elem_str = <<"F", "E">> -> ParseOk(3)
      [] OTHER -> ParseOk(0)

\* get_valence: the valence of a listed symbol; unimplemented!() otherwise.
get_valence(elem_str) ==
    CASE elem_str = <<"H">> -> ParseOk(1)
      [] elem_str = <<"D">> -> ParseOk(1)
      [] elem_str = <<"C">> -> ParseOk(4)
      [] elem_str = <<"N">> -> ParseOk(3)
      [] elem_str = <<"O">> -> ParseOk(2)
      [] elem_str = <<"S">> -> ParseOk(2)
      [] elem_str = <<"S", "E">> -> ParseOk(2)
      [] elem_str = <<"T", "E">> -> ParseOk(2)
      [] elem_str = <<"P">> -> ParseOk(3)
      [] elem_str = <<"F">> -> ParseOk(1)
      [] elem_str = <<"C", "L">> -> ParseOk(1)
      [] elem_str = <<"B", "R">> -> ParseOk(1)
      [] elem_str = <<"I">> -> ParseOk(1)
      [] elem_str = <<"B">> -> ParseOk(3)
      [] elem_str = <<"L", "I">> -> ParseOk(1)
      [] elem_str = <<"N", "A">> -> ParseOk(1)
      [] elem_str = <<"K">> -> ParseOk(1)
      [] elem_str = <<"C", "A">> -> ParseOk(2)
      [] elem_str = <<"S", "R">> -> ParseOk(2)
      [] elem_str = <<"M", "G">> -> ParseOk(2)
      [] elem_str = <<"F", "E">> -> ParseOk(3)
      [] elem_str = <<"M", "N">> -> ParseOk(2)
      [] elem_str = <<"H", "G">> -> ParseOk(2)
      [] elem_str = <<"S", "I">> -> ParseOk(4)
      [] elem_str = <<"S", "N">> -> ParseOk(4)
      [] elem_str = <<"Z", "N">> -> ParseOk(2)
      [] elem_str = <<"C", "U">> -> ParseOk(2)
      [] elem_str = <<"A">> -> ParseOk(4)
      [] elem_str = <<"Q">> -> ParseOk(4)
      [] OTHER -> Unimplemented

\* is_heavy_atom, as written: elem_str == "H".
is_heavy_atom(elem_str) == elem_str = <<"H">>

\* convert_mdl_type: the normalized type; "DU" for every unlisted symbol.
convert_mdl_type(elem_str) ==
    CASE elem_str = <<"H">> -> "H"
      [] elem_str = <<"C">> -> "C3"
      [] elem_str = <<"O">> -> "O2"
      [] elem_str = <<"N">> -> "N3"
      [] elem_str = <<"F">> -> "F"
      [] elem_str = <<"C", "l">> -> "CL"
      [] elem_str = <<"B", "r">> -> "BR"
      [] elem_str = <<"I">> -> "I"
      [] elem_str = <<"A", "l">> -> "AL"
      [] elem_str = <<"A", "N", "Y">> -> "A"
      [] elem_str = <<"C", "a">> -> "CA"
      [] elem_str = <<"D", "u">> -> "DU"
      [] elem_str = <<"K">> -> "K"
      [] elem_str = <<"L", "i">> -> "LI"
      [] elem_str = <<"L", "P">> -> "LP"
      [] elem_str = <<"N", "a">> -> "NA"
      [] elem_str = <<"S">> -> "S3"
      [] elem_str = <<"S", "i">> -> "SI"
      [] elem_str = <<"P">> -> "P4"
      [] elem_str = <<"A">> -> "A"
      [] elem_str = <<"Q">> -> "Q"
      [] OTHER -> "DU"

\* A variant of the bond table that lacks the JSME code "9".
bond_type_without_9(code) ==
    CASE code = <<"1">> -> [ok |-> TRUE, val |-> "S"]
      [] code = <<"2">> -> [ok |-> TRUE, val |-> "D"]
      [] code = <<"3">> -> [ok |-> TRUE, val |-> "T"]
      [] code = <<"4">> -> [ok |-> TRUE, val |-> "A"]
      [] code = <<"5">> -> [ok |-> TRUE, val |-> "l"]
      [] code = <<"6">> -> [ok |-> TRUE, val |-> "s"]
      [] code = <<"7">> -> [ok |-> TRUE, val |-> "d"]
      [] code = <<"8">> -> [ok |-> TRUE, val |-> "a"]
      [] OTHER -> [ok |-> FALSE, val |-> ""]

\* The match on sp[2] in the bond loop: the bond type of a code token;
\* unimplemented!() for any other token.
bond_type(code) ==
    CASE code = <<"1">> -> [ok |-> TRUE, val |-> "S"]
      [] code = <<"2">> -> [ok |-> TRUE, val |-> "D"]
      [] code = <<"3">> -> [ok |-> TRUE, val |-> "T"]
      [] code = <<"4">> -> [ok |-> TRUE, val |-> "A"]
      [] code = <<"5">> -> [ok |-> TRUE, val |-> "l"]
      [] code = <<"6">> -> [ok |-> TRUE, val |-> "s"]
      [] code = <<"7">> -> [ok |-> TRUE, val |-> "d"]
      [] code = <<"8">> -> [ok |-> TRUE, val |-> "a"]
      [] code = <<"9">> -> [ok |-> TRUE, val |-> "a"]
      [] OTHER -> [ok |-> FALSE, val |-> ""]

\* A rounding that resolves ties upwards: floor(x + 0.5).
round_half_up(chg) == (chg + 5) \div 10

\* f64::round (then `as isize`): nearest integer, ties away from zero.
\* The argument is in tenths, the result is an integer.
round(chg) ==
    IF chg >= 0 THEN (chg + 5) \div 10 ELSE 0 - ((5 - chg) \div 10)

\* ------------------------------------------------------- input alphabets
RECURSIVE JoinWith(_, _)
JoinWith(toks, sep) ==
    IF toks = <<>> THEN <<>>
    ELSE IF Len(toks) = 1 THEN toks[1]
    ELSE toks[1] \o sep \o JoinWith(Tail(toks), sep)

Join(toks) == JoinWith(toks, <<" ">>)

UsizeToken(n) == <<DigitChars[n + 1]>>

\* Line 1, line 2 and line 3 of a file.
NameLines == { <<"m">>, <<" ", "m", "\t">> }

Line2Lines == { <<>>, <<"x">> }

CommentLines == { <<"c">>, <<" ", "c">> }

\* Line 4: every declaration of n atoms and m bonds within the bound, one
\* with surrounding whitespace and trailing fields, and malformed ones.
CountsLines ==
    { Join(<<UsizeToken(nm[1]), UsizeToken(nm[2])>>) :
        nm \in { p \in (0..MaxRecords) \X (0..MaxRecords) :
                   p[1] + p[2] <= MaxRecords } }
    \cup { <<" ">> \o JoinWith(<<<<"1">>, <<"1">>, <<"0">>>>, <<" ", "\t">>),
           <<>>,
           <<"2">>,
           <<"x", " ", "1">>,
           <<"1", " ", "-", "1">> }

Zero == <<"0">>

\* Atom lines: x y z element charge [trailing fields].
AtomLines ==
    { Join(<<Zero, Zero, Zero, <<"C">>, Zero>>),
      Join(<<<<"1", ".", "0">>, Zero, Zero, <<"O">>, <<"0", ".", "4">>>>),
      Join(<<Zero, Zero, Zero, <<"H">>, <<"1", ".", "5">>>>),
      JoinWith(<<Zero, Zero, <<"-", "1">>, <<"C", "L">>, <<"-", "1", ".", "5">>,
                 Zero, Zero>>, <<"\t">>),
      Join(<<Zero, Zero, Zero, <<"F", "E">>, <<"-", "0", ".", "5">>>>),
      Join(<<Zero, Zero, Zero, <<"C", "l">>, Zero>>),
      Join(<<Zero, Zero, Zero, <<"X", "X">>, Zero>>),
      Join(<<Zero, Zero, Zero, <<"L", "P">>, Zero>>),
      Join(<<Zero, Zero, <<"x">>, <<"C">>, Zero>>),
      Join(<<Zero, Zero, Zero, <<"N">>, <<"y">>>>),
      Join(<<Zero, Zero, Zero, <<"N">>>>),
      Join(<<Zero, Zero, Zero>>),
      <<>> }

\* Bond lines: atom1 atom2 code [trailing fields]; every code of the table,
\* the index 0, and malformed lines.
BondLines ==
    { Join(<<<<"1">>, <<"2">>, <<DigitChars[c + 1]>>>>) : c \in 0..9 }
    \cup { Join(<<<<"2">>, <<"1">>, <<"1">>, Zero>>),
           Join(<<Zero, <<"1">>, <<"1">>>>),
           Join(<<<<"1">>, Zero, <<"1">>>>),
           Join(<<<<"1">>, <<"2">>, <<"A">>>>),
           Join(<<<<"1">>, <<"2">>>>),
           Join(<<<<"x">>, <<"2">>, <<"1">>>>),
           Join(<<<<"1">>, <<"1", ".", "0">>, <<"1">>>>),
           <<>> }

\* ------------------------------------------------------------------ state
VARIABLES
    pc,               \* position in load, "returned" or "panicked"
    fault,            \* which panic ended load ("none" while there is none)
    overflow_checks,  \* whether the build panics on integer overflow
    file,             \* the lines the iterator has yielded so far
    mol_name, mol_comment,
    n_atoms, n_bonds,
    n_c_tot, n_o_tot, n_n_tot, n_heavy,
    atoms, bonds,
    result            \* the Input value load returns

vars == <<pc, fault, overflow_checks, file, mol_name, mol_comment, n_atoms,
          n_bonds, n_c_tot, n_o_tot, n_n_tot, n_heavy, atoms, bonds, result>>

locals == <<mol_name, mol_comment, n_atoms, n_bonds, n_c_tot, n_o_tot,
            n_n_tot, n_heavy, atoms, bonds>>

NoResult ==
    [mol_name |-> <<>>, mol_comment |-> <<>>, n_c_tot |-> 0, n_o_tot |-> 0,
     n_n_tot |-> 0, n_heavy |-> 0, heavy_bonds |-> 0, atoms |-> <<>>,
     bonds |-> <<>>]

Init ==
    /\ pc = "read"
    /\ fault = "none"
    /\ overflow_checks \in BOOLEAN
    /\ file = <<>>
    /\ mol_name = <<>>
    /\ mol_comment = <<>>
    /\ n_atoms = 0
    /\ n_bonds = 0
    /\ n_c_tot = 0
    /\ n_o_tot = 0
    /\ n_n_tot = 0
    /\ n_heavy = 0
    /\ atoms = <<>>
    /\ bonds = <<>>
    /\ result = NoResult

\* A panic unwinds out of load: nothing is returned.
Panic(f) ==
    /\ pc' = "panicked"
    /\ fault' = f

\* ------------------------------------------------------- steps of load
\* Where load continues once k atoms of n_a are read: the atom loop, the
\* bond loop (lines.take(n_b) yields nothing when n_b is 0), the last pass.
AfterAtoms(k, n_a, n_b) ==
    IF k < n_a THEN "atoms" ELSE IF n_b > 0 THEN "bonds" ELSE "heavy"

AfterBonds(k, n_b) == IF k < n_b THEN "bonds" ELSE "heavy"

\* let s = std::fs::read_to_string(filename).unwrap();
ReadToString ==
    /\ pc = "read"
    /\ \E readable \in BOOLEAN :
         IF readable
         THEN pc' = "name" /\ fault' = fault
         ELSE Panic("io")
    /\ UNCHANGED <<overflow_checks, file, locals, result>>

\* lines.next() yields None: the unwrap of a header, counts or atom line
\* panics.
RequiredLineMissing ==
    /\ pc \in {"name", "line2", "comment", "counts", "atoms"}
    /\ Panic("unwrap_none")
    /\ UNCHANGED <<overflow_checks, file, locals, result>>

\* let mol_name = lines.next().unwrap();
NameLine ==
    /\ pc = "name"
    /\ \E line \in NameLines :
         /\ file' = Append(file, line)
         /\ mol_name' = line
    /\ pc' = "line2"
    /\ UNCHANGED <<fault, overflow_checks, mol_comment, n_atoms, n_bonds,
                   n_c_tot, n_o_tot, n_n_tot, n_heavy, atoms, bonds, result>>

\* let _ = lines.next().unwrap();
DiscardLine2 ==
    /\ pc = "line2"
    /\ \E line \in Line2Lines : file' = Append(file, line)
    /\ pc' = "comment"
    /\ UNCHANGED <<fault, overflow_checks, locals, result>>

\* let mol_comment = lines.next().unwrap();
CommentLine ==
    /\ pc = "comment"
    /\ \E line \in CommentLines :
         /\ file' = Append(file, line)
         /\ mol_comment' = line
    /\ pc' = "counts"
    /\ UNCHANGED <<fault, overflow_checks, mol_name, n_atoms, n_bonds,
                   n_c_tot, n_o_tot, n_n_tot, n_heavy, atoms, bonds, result>>

\* info.next().unwrap().trim().parse().unwrap(), for the k-th token.
CountField(info, k) ==
    IF Len(info) < k THEN [fault |-> "unwrap_none", val |-> 0]
    ELSE LET r == parse_usize(trim(info[k]))
         IN  IF r.ok THEN [fault |-> "none", val |-> r.val]
             ELSE [fault |-> "parse", val |-> 0]

\* The counts line: n_atoms, then n_bonds.
CountsLine ==
    /\ pc = "counts"
    /\ \E line \in CountsLines :
         LET info == split_ascii_whitespace(line)
             a    == CountField(info, 1)
             b    == CountField(info, 2)
         IN  /\ file' = Append(file, line)
             /\ IF a.fault # "none"
                THEN Panic(a.fault) /\ UNCHANGED <<n_atoms, n_bonds>>
                ELSE IF b.fault # "none"
                THEN Panic(b.fault) /\ n_atoms' = a.val /\ n_bonds' = n_bonds
                ELSE /\ n_atoms' = a.val
                     /\ n_bonds' = b.val
                     /\ pc' = AfterAtoms(0, a.val, b.val)
                     /\ fault' = fault
    /\ UNCHANGED <<overflow_checks, mol_name, mol_comment, n_c_tot, n_o_tot,
                   n_n_tot, n_heavy, atoms, bonds, result>>

\* The body of the atom loop on the tokens sp of one line, in the order of
\* the code: sp[3], the element totals, convert_mdl_type, x, y, z, sp[4],
\* the charge, is_heavy_atom, get_valence, Atom { .. }.  Every field the
\* literal does not name takes its Default; `heavy` is one of them.
AtomOf(sp) ==
    LET elem_str == sp[4]
        x   == parse_f64(sp[1])
        y   == parse_f64(sp[2])
        z   == parse_f64(sp[3])
        chg == parse_f64(sp[5])
        nvalences == get_valence(elem_str)
        none == [element |-> <<>>, atype |-> "", x |-> 0, y |-> 0, z |-> 0,
                 formal_charge |-> 0, real_charge |-> 0, heavy |-> FALSE,
                 nvalences |-> 0]
    IN  IF Len(sp) < 4 THEN [fault |-> "index", atom |-> none]
        ELSE IF ~x.ok \/ ~y.ok \/ ~z.ok THEN [fault |-> "parse", atom |-> none]
        ELSE IF Len(sp) < 5 THEN [fault |-> "index", atom |-> none]
        ELSE IF ~chg.ok THEN [fault |-> "parse", atom |-> none]
        ELSE IF ~nvalences.ok
             THEN [fault |-> "unimplemented_valence", atom |-> none]
        ELSE [fault |-> "none",
              atom  |-> [element |-> elem_str,
                         atype |-> convert_mdl_type(elem_str),
                         x |-> x.val, y |-> y.val, z |-> z.val,
                         formal_charge |-> round(chg.val),
                         real_charge |-> chg.val,
                         heavy |-> FALSE,
                         nvalences |-> nvalences.val]]

\* One iteration of `for _ in 0..n_atoms`.
AtomLine ==
    /\ pc = "atoms"
    /\ \E line \in AtomLines :
         LET sp == split_ascii_whitespace(line)
             r  == AtomOf(sp)
         IN  /\ file' = Append(file, line)
             /\ IF r.fault # "none"
                THEN /\ Panic(r.fault)
                     /\ UNCHANGED <<n_c_tot, n_o_tot, n_n_tot, n_heavy, atoms>>
                ELSE /\ n_c_tot' = n_c_tot + (IF sp[4] = <<"C">> THEN 1 ELSE 0)
                     /\ n_o_tot' = n_o_tot + (IF sp[4] = <<"O">> THEN 1 ELSE 0)
                     /\ n_n_tot' = n_n_tot + (IF sp[4] = <<"N">> THEN 1 ELSE 0)
                     /\ n_heavy' = n_heavy + (IF is_heavy_atom(sp[4]) THEN 1 ELSE 0)
                     /\ atoms' = Append(atoms, r.atom)
                     /\ pc' = AfterAtoms(Len(atoms) + 1, n_atoms, n_bonds)
                     /\ fault' = fault
    /\ UNCHANGED <<overflow_checks, mol_name, mol_comment, n_atoms, n_bonds,
                   bonds, result>>

\* parse::<usize>().unwrap() - 1: the subtraction panics on 0 in a build
\* with overflow checks and wraps to usize::MAX in one without.
IndexField(tok, checks) ==
    LET r == parse_usize(tok)
    IN  IF ~r.ok THEN [fault |-> "parse", val |-> 0]
        ELSE IF r.val = 0
             THEN IF checks THEN [fault |-> "overflow", val |-> 0]
                  ELSE [fault |-> "none", val |-> USIZE_MAX]
        ELSE [fault |-> "none", val |-> r.val - 1]

\* The body of the bond loop on the tokens sp of one line: sp[0], sp[1],
\* then the match on sp[2].
BondOf(sp, checks) ==
    LET a1 == IndexField(sp[1], checks)
        a2 == IndexField(sp[2], checks)
        bt == bond_type(sp[3])
        none == [a1 |-> 0, a2 |-> 0, btype |-> ""]
    IN  IF Len(sp) < 1 THEN [fault |-> "index", bond |-> none]
        ELSE IF a1.fault # "none" THEN [fault |-> a1.fault, bond |-> none]
        ELSE IF Len(sp) < 2 THEN [fault |-> "index", bond |-> none]
        ELSE IF a2.fault # "none" THEN [fault |-> a2.fault, bond |-> none]
        ELSE IF Len(sp) < 3 THEN [fault |-> "index", bond |-> none]
        ELSE IF ~bt.ok THEN [fault |-> "unimplemented_btype", bond |-> none]
        ELSE [fault |-> "none",
              bond  |-> [a1 |-> a1.val, a2 |-> a2.val, btype |-> bt.val]]

\* One iteration of `for line in lines.take(n_bonds)`.
BondLine ==
    /\ pc = "bonds"
    /\ \E line \in BondLines :
         LET r == BondOf(split_ascii_whitespace(line), overflow_checks)
         IN  /\ file' = Append(file, line)
             /\ IF r.fault # "none"
                THEN Panic(r.fault) /\ bonds' = bonds
                ELSE /\ bonds' = Append(bonds, r.bond)
                     /\ pc' = AfterBonds(Len(bonds) + 1, n_bonds)
                     /\ fault' = fault
    /\ UNCHANGED <<overflow_checks, mol_name, mol_comment, n_atoms, n_bonds,
                   n_c_tot, n_o_tot, n_n_tot, n_heavy, atoms, result>>

\* The lines run out before n_bonds bond lines were taken: the iterator
\* ends and so does the loop.
BondLinesExhausted ==
    /\ pc = "bonds"
    /\ pc' = "heavy"
    /\ UNCHANGED <<fault, overflow_checks, file, locals, result>>

\* The pass over the bonds from bond i on, `count` heavy bonds so far:
\* atoms[bond.a1].heavy && atoms[bond.a2].heavy, with bounds-checked
\* indexing and a short-circuit &&.
RECURSIVE HeavyBondsFrom(_, _, _, _)
HeavyBondsFrom(bs, as, i, count) ==
    IF i > Len(bs) THEN [fault |-> "none", val |-> count]
    ELSE IF bs[i].a1 >= Len(as) THEN [fault |-> "index", val |-> count]
    ELSE IF ~as[bs[i].a1 + 1].heavy THEN HeavyBondsFrom(bs, as, i + 1, count)
    ELSE IF bs[i].a2 >= Len(as) THEN [fault |-> "index", val |-> count]
    ELSE IF ~as[bs[i].a2 + 1].heavy THEN HeavyBondsFrom(bs, as, i + 1, count)
    ELSE HeavyBondsFrom(bs, as, i + 1, count + 1)

\* The heavy_bonds pass and the construction of Self.
HeavyBondsAndReturn ==
    /\ pc = "heavy"
    /\ LET hb == HeavyBondsFrom(bonds, atoms, 1, 0)
       IN  IF hb.fault # "none"
           THEN Panic(hb.fault) /\ result' = result
           ELSE /\ pc' = "returned"
                /\ fault' = fault
                /\ result' = [mol_name |-> mol_name,
                              mol_comment |-> mol_comment,
                              n_c_tot |-> n_c_tot,
                              n_o_tot |-> n_o_tot,
                              n_n_tot |-> n_n_tot,
                              n_heavy |-> n_heavy,
                              heavy_bonds |-> hb.val,
                              atoms |-> atoms,
                              bonds |-> bonds]
    /\ UNCHANGED <<overflow_checks, file, locals>>

Next ==
    \/ ReadToString
    \/ RequiredLineMissing
    \/ NameLine
    \/ DiscardLine2
    \/ CommentLine
    \/ CountsLine
    \/ AtomLine
    \/ BondLine
    \/ BondLinesExhausted
    \/ HeavyBondsAndReturn

Spec == Init /\ [][Next]_vars

\* ------------------------------------------------------------ properties
Returned == pc = "returned"

\* The tokens of the line the i-th atom (the i-th bond) was read from.
AtomTokens(i) == split_ascii_whitespace(file[4 + i])

BondTokens(i) == split_ascii_whitespace(file[4 + n_atoms + i])

LastTokens == split_ascii_whitespace(file[Len(file)])

\* C1: a returned molecule has as many atoms as the counts line declares
\* atoms and as many bonds as it declares bonds.
C1_DeclaredCounts ==
    Returned =>
        /\ Len(result.atoms) = n_atoms
        /\ Len(result.bonds) = n_bonds

\* The documented classification: heavy unless the symbol is exactly "H".
NotHydrogen(elem_str) == elem_str # <<"H">>

\* C2: n_heavy of a returned molecule is the number of its atoms whose
\* element symbol is not exactly "H".
C2_HeavyTotal ==
    Returned =>
        result.n_heavy =
            Cardinality({i \in 1..Len(result.atoms) :
                            NotHydrogen(result.atoms[i].element)})

\* C3: heavy_bonds of a returned molecule is the number of its bonds whose
\* two endpoint atoms are both heavy, recomputed from the returned atom and
\* bond sequences.
C3_HeavyBonds ==
    Returned =>
        result.heavy_bonds =
            Cardinality({i \in 1..Len(result.bonds) :
                LET b == result.bonds[i]
                IN  /\ b.a1 < Len(result.atoms)
                    /\ b.a2 < Len(result.atoms)
                    /\ NotHydrogen(result.atoms[b.a1 + 1].element)
                    /\ NotHydrogen(result.atoms[b.a2 + 1].element)})

\* C4: on a readable input load never ends in a panic: a malformed input
\* ends in a reported error, not in a crash.
C4_NoCrashOnReadableInput == pc = "panicked" => fault = "io"

\* C5: both endpoint indices of every bond of a returned molecule are
\* below the number of atoms.
C5_BondIndicesInRange ==
    Returned =>
        \A i \in 1..Len(result.bonds) :
            /\ result.bonds[i].a1 >= 0 /\ result.bonds[i].a1 < n_atoms
            /\ result.bonds[i].a2 >= 0 /\ result.bonds[i].a2 < n_atoms

\* The symbols of the valence table.
ValenceSymbols ==
    { <<"H">>, <<"D">>, <<"C">>, <<"N">>, <<"O">>, <<"S">>, <<"S", "E">>,
      <<"T", "E">>, <<"P">>, <<"F">>, <<"C", "L">>, <<"B", "R">>, <<"I">>,
      <<"B">>, <<"L", "I">>, <<"N", "A">>, <<"K">>, <<"C", "A">>,
      <<"S", "R">>, <<"M", "G">>, <<"F", "E">>, <<"M", "N">>, <<"H", "G">>,
      <<"S", "I">>, <<"S", "N">>, <<"Z", "N">>, <<"C", "U">>, <<"A">>,
      <<"Q">> }

\* The symbols convert_mdl_type lists that the valence table does not.
MixedCaseSymbols ==
    { <<"C", "l">>, <<"B", "r">>, <<"A", "l">>, <<"A", "N", "Y">>,
      <<"C", "a">>, <<"D", "u">>, <<"L", "i">>, <<"L", "P">>, <<"N", "a">>,
      <<"S", "i">> }

\* The lookup alone (it reads no state; C6 evaluates it where load starts):
\* it succeeds on every symbol of the table and fails on the others.
C6_TableFacts ==
    /\ \A e \in ValenceSymbols : get_valence(e).ok /\ get_valence(e).val \in 1..4
    /\ \A e \in MixedCaseSymbols \cup {<<"X", "X">>} : ~get_valence(e).ok

\* C6: every atom of a returned molecule has an element symbol of the
\* valence table and the table's valence for it (C 4, N 3, O 2, CL 1,
\* FE 3, H 1); load fails in the valence lookup only on a symbol outside
\* the table, on which the lookup fails.
C6_ValenceFromTable ==
    /\ Returned =>
         \A i \in 1..Len(result.atoms) :
            LET a == result.atoms[i]
            IN  /\ a.element \in ValenceSymbols
                /\ a.element = AtomTokens(i)[4]
                /\ get_valence(a.element).ok
                /\ a.nvalences = get_valence(a.element).val
                /\ a.element = <<"C">> => a.nvalences = 4
                /\ a.element = <<"N">> => a.nvalences = 3
                /\ a.element = <<"O">> => a.nvalences = 2
                /\ a.element = <<"C", "L">> => a.nvalences = 1
                /\ a.element = <<"F", "E">> => a.nvalences = 3
                /\ a.element = <<"H">> => a.nvalences = 1
    /\ (pc = "panicked" /\ fault = "unimplemented_valence") =>
         LastTokens[4] \notin ValenceSymbols
    /\ pc = "read" => C6_TableFacts

\* C6 witness: a molecule was returned with an iron and a chlorine atom.
C6_Witness ==
    /\ Returned
    /\ \E i \in 1..Len(result.atoms) :
          result.atoms[i].element = <<"F", "E">> /\ result.atoms[i].nvalences = 3
    /\ \E i \in 1..Len(result.atoms) :
          result.atoms[i].element = <<"C", "L">> /\ result.atoms[i].nvalences = 1

\* The bond types of the codes "1" .. "9".
ExpectedBondType == <<"S", "D", "T", "A", "l", "s", "d", "a", "a">>

BondCode(c) == <<DigitChars[c + 1]>>

\* C7: every bond of a returned molecule has the type the table gives for
\* the third token of its line, which is one of "1" .. "9"; load fails in
\* the bond type match only on a token outside "1" .. "9".
C7_BondTypeTable ==
    /\ Returned =>
         /\ Len(file) = 4 + n_atoms + Len(result.bonds)
         /\ \A i \in 1..Len(result.bonds) :
               /\ \E c \in 1..9 :
                     /\ BondTokens(i)[3] = BondCode(c)
                     /\ result.bonds[i].btype = ExpectedBondType[c]
               /\ result.bonds[i].btype \in {"S", "D", "T", "A", "l", "s", "d", "a"}
    /\ (pc = "panicked" /\ fault = "unimplemented_btype") =>
         \A c \in 1..9 : LastTokens[3] # BondCode(c)

\* C7 witness: a molecule was returned with a bond read from code "9" and
\* a bond read from code "5".
C7_Witness ==
    /\ Returned
    /\ \E i \in 1..Len(result.bonds) :
          BondTokens(i)[3] = <<"9">> /\ result.bonds[i].btype = "a"
    /\ \E i \in 1..Len(result.bonds) :
          BondTokens(i)[3] = <<"5">> /\ result.bonds[i].btype = "l"

Abs(n) == IF n < 0 THEN 0 - n ELSE n

\* k is the integer nearest to t tenths, the farther from zero of the two
\* when t is halfway between them.
NearestTiesAway(k, t) ==
    /\ Abs(10 * k - t) <= 5
    /\ Abs(10 * k - t) = 5 => 10 * Abs(k) > Abs(t)

\* C8: formal_charge of every returned atom is the charge field rounded to
\* the nearest integer, ties away from zero (1.5 to 2, -1.5 to -2, 0.4 to
\* 0), and real_charge is the charge field unrounded.
C8_ChargeRounding ==
    Returned =>
        \A i \in 1..Len(result.atoms) :
            LET a   == result.atoms[i]
                tok == AtomTokens(i)[5]
            IN  /\ parse_f64(tok).ok
                /\ a.real_charge = parse_f64(tok).val
                /\ NearestTiesAway(a.formal_charge, a.real_charge)
                /\ tok = <<"1", ".", "5">> => a.formal_charge = 2
                /\ tok = <<"-", "1", ".", "5">> => a.formal_charge = 0 - 2
                /\ tok = <<"0", ".", "4">> => a.formal_charge = 0

\* C8 witness: a molecule was returned with atoms of charge 1.5, -1.5 and
\* 0.4, whose formal charges differ from their real charges.
C8_Witness ==
    /\ Returned
    /\ \E i \in 1..Len(result.atoms) :
          result.atoms[i].real_charge = 15 /\ result.atoms[i].formal_charge = 2
    /\ \E i \in 1..Len(result.atoms) :
          result.atoms[i].real_charge = 0 - 15 /\ result.atoms[i].formal_charge = 0 - 2
    /\ \E i \in 1..Len(result.atoms) :
          result.atoms[i].real_charge = 4 /\ result.atoms[i].formal_charge = 0

\* C9: mol_name of a returned molecule is line 1 trimmed and mol_comment
\* is line 3 trimmed.
C9_TrimmedHeader ==
    Returned =>
        /\ result.mol_name = trim(file[1])
        /\ result.mol_comment = trim(file[3])

\* The atom types load can return, and the normalized types it cannot.
ReachableTypes ==
    {"H", "C3", "N3", "O2", "S3", "P4", "F", "I", "K", "A", "Q", "DU"}

UnreachableTypes == {"CL", "BR", "AL", "CA", "LI", "LP", "NA", "SI"}

\* The lines of `file` that the atom loop read.
AtomLinePositions ==
    {k \in 5..Len(file) : k <= 4 + n_atoms}

\* The two tables alone (they read no state; C10 evaluates this where load
\* starts): a symbol that passes the valence lookup normalizes to a type of
\* ReachableTypes, to "DU" when it has several letters, and a symbol that
\* normalizes to a type of UnreachableTypes fails the valence lookup.
C10_TableFacts ==
    /\ \A e \in ValenceSymbols :
         /\ convert_mdl_type(e) \in ReachableTypes
         /\ Len(e) > 1 => convert_mdl_type(e) = "DU"
    /\ \A e \in MixedCaseSymbols :
         convert_mdl_type(e) \in UnreachableTypes => ~get_valence(e).ok

\* C10: every atom of a returned molecule has a type of ReachableTypes,
\* and "DU" when its symbol has several letters; an atom line, well formed
\* otherwise, whose symbol normalizes to one of UnreachableTypes makes load
\* fail in the valence lookup; every symbol that passes the valence lookup
\* normalizes to a type of ReachableTypes.
C10_ReachableAtomTypes ==
    /\ Returned =>
         \A i \in 1..Len(result.atoms) :
            LET a == result.atoms[i]
            IN  /\ a.atype \in ReachableTypes
                /\ a.atype = convert_mdl_type(AtomTokens(i)[4])
                /\ Len(a.element) > 1 => a.atype = "DU"
    /\ \A k \in AtomLinePositions :
         LET sp == split_ascii_whitespace(file[k])
         IN  ( /\ Len(sp) >= 5
               /\ parse_f64(sp[1]).ok /\ parse_f64(sp[2]).ok
               /\ parse_f64(sp[3]).ok /\ parse_f64(sp[5]).ok
               /\ convert_mdl_type(sp[4]) \in UnreachableTypes )
             => /\ k = Len(file)
                /\ pc = "panicked"
                /\ fault = "unimplemented_valence"
    /\ pc = "read" => C10_TableFacts

\* C10 witness: a molecule was returned whose atom "CL" is typed "DU".
C10_Witness ==
    /\ Returned
    /\ \E i \in 1..Len(result.atoms) :
          result.atoms[i].element = <<"C", "L">> /\ result.atoms[i].atype = "DU"

====
